---- MODULE Spec2Model ----
(***************************************************************************)
(* Universal Google Drive ID Extractor.                                    *)
(*                                                                         *)
(* A model of the extraction rule (GID_REGEX, extractGoogleDriveId) and of *)
(* the request handlers of api/index.js and of the items/meta revision.    *)
(* Strings are sequences of one-character strings; a JavaScript value is a *)
(* record [type, str, num, elems].                                         *)
(***************************************************************************)
EXTENDS Integers, Sequences, FiniteSets, TLC

(***************************************************************************)
(* JavaScript values                                                       *)
(***************************************************************************)
JS(t, s, n, e) == [type |-> t, str |-> s, num |-> n, elems |-> e]

Undefined == JS("undefined", <<>>, 0, <<>>)
Null      == JS("null", <<>>, 0, <<>>)
Str(s)    == JS("string", s, 0, <<>>)
Num(n)    == JS("number", <<>>, n, <<>>)
Bool(b)   == JS("boolean", <<>>, IF b THEN 1 ELSE 0, <<>>)
Obj       == JS("object", <<>>, 0, <<>>)
Arr(e)    == JS("array", <<>>, 0, e)

\* typeof v
typeof(v) ==
    IF v.type \in {"null", "object", "array"} THEN "object" ELSE v.type

\* Array.isArray(v)
Array_isArray(v) == v.type = "array"

\* ToBoolean(v): the truthiness tested by if (v), !v and Boolean(v)
Boolean(v) ==
    CASE v.type \in {"undefined", "null"} -> FALSE
      [] v.type = "boolean" -> v.num = 1
      [] v.type = "number" -> v.num # 0
      [] v.type = "string" -> Len(v.str) > 0
      [] OTHER -> TRUE

\* Completion of a call: a returned value or a thrown exception
Return(v) == [kind |-> "return", value |-> v]
Throw     == [kind |-> "throw", value |-> Undefined]

\* completion marker of a call that has not been made yet
Pending == [kind |-> "pending", value |-> Undefined]

(***************************************************************************)
(* GID_REGEX = /(?:\/d\/|folders\/|id=)([a-zA-Z0-9_-]{10,})/               *)
(***************************************************************************)
Lower == {"a", "b", "c", "d", "e", "f", "g", "h", "i", "j", "k", "l", "m",
          "n", "o", "p", "q", "r", "s", "t", "u", "v", "w", "x", "y", "z"}
Upper == {"A", "B", "C", "D", "E", "F", "G", "H", "I", "J", "K", "L", "M",
          "N", "O", "P", "Q", "R", "S", "T", "U", "V", "W", "X", "Y", "Z"}
Digit == {"0", "1", "2", "3", "4", "5", "6", "7", "8", "9"}

\* the character class [a-zA-Z0-9_-]
IdChar == Lower \cup Upper \cup Digit \cup {"_", "-"}

\* the alternatives of the non-capturing group, in the order the engine tries them
Markers == << <<"/", "d", "/">>,
              <<"f", "o", "l", "d", "e", "r", "s", "/">>,
              <<"i", "d", "=">> >>

MinLen_25 == 25

\* the lower bound of the quantifier {10,}
MinLen == 10

\* the literal m occurs in s at position i (1-based)
LitAt(s, i, m) ==
    /\ i + Len(m) - 1 <= Len(s)
    /\ \A k \in 1..Len(m) : s[i + k - 1] = m[k]

RECURSIVE RunLen(_, _)
\* greedy quantifier: the number of class characters of s from position j on
RunLen(s, j) ==
    IF j <= Len(s) /\ s[j] \in IdChar THEN 1 + RunLen(s, j + 1) ELSE 0

RECURSIVE TryAlt_lazy(_, _, _)
\* TryAlt with the lazy quantifier {10,}?: the capture stops at the lower bound
TryAlt_lazy(s, i, k) ==
    IF k > Len(Markers) THEN <<>>
    ELSE LET m == Markers[k]
             j == i + Len(m)
         IN  IF LitAt(s, i, m) /\ RunLen(s, j) >= MinLen
             THEN <<j, j + MinLen - 1>>
             ELSE TryAlt_lazy(s, i, k + 1)

RECURSIVE TryAlt(_, _, _)
\* the match attempt at start position i, alternatives k, k+1, ... in order:
\* the capture group's [from, to] span, or <<>> when every alternative fails
TryAlt(s, i, k) ==
    IF k > Len(Markers) THEN <<>>
    ELSE LET m == Markers[k]
             j == i + Len(m)
         IN  IF LitAt(s, i, m) /\ RunLen(s, j) >= MinLen
             THEN <<j, j + RunLen(s, j) - 1>>
             ELSE TryAlt(s, i, k + 1)

RECURSIVE Scan_last(_, _)
\* Scan that prefers the rightmost start position
Scan_last(s, i) ==
    IF i > Len(s) THEN <<>>
    ELSE LET later == Scan_last(s, i + 1)
         IN  IF later # <<>> THEN later ELSE TryAlt(s, i, 1)

RECURSIVE Scan(_, _)
\* the engine advances the start position left to right until an attempt succeeds
Scan(s, i) ==
    IF i > Len(s) THEN <<>>
    ELSE LET span == TryAlt(s, i, 1)
         IN  IF span # <<>> THEN span ELSE Scan(s, i + 1)

\* input.match(GID_REGEX): the span of capture group 1, or <<>> for a null match
String_match(s) == Scan(s, 1)

\* extractGoogleDriveId without the typeof guard: match is no method of a non-string
extractGoogleDriveId_unguarded(input) ==
    IF input.type # "string" THEN Throw
    ELSE LET match == String_match(input.str)
         IN  IF match # <<>>
             THEN Return(Str(SubSeq(input.str, match[1], match[2])))
             ELSE Return(Null)

\* extractGoogleDriveId(input)
extractGoogleDriveId(input) ==
    IF typeof(input) # "string" THEN Return(Null)
    ELSE LET match == String_match(input.str)
         IN  IF match # <<>>
             THEN Return(Str(SubSeq(input.str, match[1], match[2])))
             ELSE Return(Null)

(***************************************************************************)
(* Request bodies.  A decoded body is its value together with the url and  *)
(* urls properties that destructuring reads from it; a JSON text is a      *)
(* sequence of lexical elements (tokens and " " for white space).          *)
(***************************************************************************)
Body(v, u, us) == [val |-> v, url |-> u, urls |-> us]

\* {}
EmptyObject == Body(Obj, Undefined, Undefined)

\* /document/d/1aBcD_eX-yZ1234567890AbCdEf/edit
U_doc ==
    <<"/", "d", "o", "c", "u", "m", "e", "n", "t", "/", "d", "/", "1", "a",
      "B", "c", "D", "_", "e", "X", "-", "y", "Z", "1", "2", "3", "4", "5",
      "6", "7", "8", "9", "0", "A", "b", "C", "d", "E", "f", "/", "e", "d",
      "i", "t">>

\* /drive/folders/2bCdE12345
U_folder ==
    <<"/", "d", "r", "i", "v", "e", "/", "f", "o", "l", "d", "e", "r", "s",
      "/", "2", "b", "C", "d", "E", "1", "2", "3", "4", "5">>

\* /drive/folders/2bCdE1234
U_short == SubSeq(U_folder, 1, Len(U_folder) - 1)

\* /open?id=ABCDEFGHIJ1234567890XYZ
U_open ==
    <<"/", "o", "p", "e", "n", "?", "i", "d", "=", "A", "B", "C", "D", "E",
      "F", "G", "H", "I", "J", "1", "2", "3", "4", "5", "6", "7", "8", "9",
      "0", "X", "Y", "Z">>

\* not a url
U_none == <<"n", "o", "t", " ", "a", " ", "u", "r", "l">>

\* the characters a string-literal token denotes
StrLits ==
    [tok \in {"\"url\"", "\"urls\"", "\"U_doc\"", "\"U_open\"", "\"U_short\"",
              "\"not a url\"", "\"\""} |->
        CASE tok = "\"url\"" -> <<"u", "r", "l">>
          [] tok = "\"urls\"" -> <<"u", "r", "l", "s">>
          [] tok = "\"U_doc\"" -> U_doc
          [] tok = "\"U_open\"" -> U_open
          [] tok = "\"U_short\"" -> U_short
          [] tok = "\"not a url\"" -> U_none
          [] OTHER -> <<>>]

\* the numbers a number token denotes
NumLits == [tok \in {"42", "0"} |-> IF tok = "42" THEN 42 ELSE 0]

PR(ok, v, u, us, n) == [ok |-> ok, val |-> v, url |-> u, urls |-> us, next |-> n]

ParseFail == PR(FALSE, Undefined, Undefined, Undefined, 0)

RECURSIVE SkipWs(_, _)
SkipWs(t, i) == IF i <= Len(t) /\ t[i] = " " THEN SkipWs(t, i + 1) ELSE i

RECURSIVE ParseValue(_, _)
RECURSIVE ParseElems(_, _, _)
RECURSIVE ParseMembers(_, _, _, _, _)

\* one JSON value of t from element i on
ParseValue(t, i) ==
    LET j == SkipWs(t, i)
    IN  IF j > Len(t) THEN ParseFail
        ELSE CASE t[j] = "null" -> PR(TRUE, Null, Undefined, Undefined, j + 1)
               [] t[j] = "true" -> PR(TRUE, Bool(TRUE), Undefined, Undefined, j + 1)
               [] t[j] = "false" -> PR(TRUE, Bool(FALSE), Undefined, Undefined, j + 1)
               [] t[j] \in DOMAIN NumLits ->
                    PR(TRUE, Num(NumLits[t[j]]), Undefined, Undefined, j + 1)
               [] t[j] \in DOMAIN StrLits ->
                    PR(TRUE, Str(StrLits[t[j]]), Undefined, Undefined, j + 1)
               [] t[j] = "[" -> ParseElems(t, j + 1, <<>>)
               [] t[j] = "{" -> ParseMembers(t, j + 1, 0, Undefined, Undefined)
               [] OTHER -> ParseFail

\* the elements of an array after "[" or ",", acc the elements read so far
ParseElems(t, i, acc) ==
    LET j == SkipWs(t, i)
    IN  IF j <= Len(t) /\ t[j] = "]" /\ acc = <<>>
        THEN PR(TRUE, Arr(<<>>), Undefined, Undefined, j + 1)
        ELSE LET v == ParseValue(t, j)
                 k == SkipWs(t, v.next)
             IN  IF ~v.ok \/ k > Len(t) THEN ParseFail
                 ELSE IF t[k] = "," THEN ParseElems(t, k + 1, Append(acc, v.val))
                 ELSE IF t[k] = "]"
                      THEN PR(TRUE, Arr(Append(acc, v.val)), Undefined, Undefined, k + 1)
                 ELSE ParseFail

\* the members of an object after "{" or ",", n the members read so far
ParseMembers(t, i, n, u, us) ==
    LET j == SkipWs(t, i)
    IN  IF j <= Len(t) /\ t[j] = "}" /\ n = 0
        THEN PR(TRUE, Obj, u, us, j + 1)
        ELSE IF j > Len(t) \/ t[j] \notin DOMAIN StrLits THEN ParseFail
        ELSE LET c == SkipWs(t, j + 1)
             IN  IF c > Len(t) \/ t[c] # ":" THEN ParseFail
                 ELSE LET v == ParseValue(t, c + 1)
                          k == SkipWs(t, v.next)
                          u2 == IF t[j] = "\"url\"" THEN v.val ELSE u
                          us2 == IF t[j] = "\"urls\"" THEN v.val ELSE us
                      IN  IF ~v.ok \/ k > Len(t) THEN ParseFail
                          ELSE IF t[k] = "," THEN ParseMembers(t, k + 1, n + 1, u2, us2)
                          ELSE IF t[k] = "}" THEN PR(TRUE, Obj, u2, us2, k + 1)
                          ELSE ParseFail

\* JSON.parse(t): the decoded body, or a SyntaxError
JSON_parse(t) ==
    LET v == ParseValue(t, 1)
    IN  IF v.ok /\ SkipWs(t, v.next) > Len(t)
        THEN Return(Body(v.val, v.url, v.urls))
        ELSE Throw

RECURSIVE TrimStart(_)
TrimStart(t) == IF t # <<>> /\ Head(t) = " " THEN TrimStart(Tail(t)) ELSE t

RECURSIVE TrimEnd(_)
TrimEnd(t) ==
    IF t # <<>> /\ t[Len(t)] = " " THEN TrimEnd(SubSeq(t, 1, Len(t) - 1)) ELSE t

\* t.trim()
String_trim(t) == TrimEnd(TrimStart(t))

\* decoding without the test for a blank text: JSON.parse(text)
parseText_untrimmed(t) == JSON_parse(t)

\* text.trim() ? JSON.parse(text) : {}
parseText(t) == IF String_trim(t) # <<>> THEN JSON_parse(t) ELSE Return(EmptyObject)

(***************************************************************************)
(* Responses                                                               *)
(***************************************************************************)
\* a message string, kept as one unit
Msg(text) == Str(<<text>>)

\* one element of the batch result list; props names the properties it has
Item(props, index, input, id, success, error) ==
    [props |-> props, index |-> index, input |-> input, googleDriveID |-> id,
     success |-> success, error |-> error]

Meta(total, succeeded, failed) ==
    [total |-> total, succeeded |-> succeeded, failed |-> failed]

NoMeta == Meta(0, 0, 0)

\* a JSON response body; props names the properties it has, list is the
\* results/items array and meta the counts
Json(props, id, success, error, list, meta) ==
    [props |-> props, googleDriveID |-> id, success |-> success, error |-> error,
     list |-> list, meta |-> meta]

\* res.status(200).end()
EmptyBody == Json({}, Undefined, Undefined, Undefined, <<>>, NoMeta)

\* what a handler passes to res.status(..).json(..) or .end(), and whether
\* console.error was called on the way
Outcome(status, body, logged) == [status |-> status, body |-> body, logged |-> logged]

\* const { url, urls } = body || {}
destructure(body) ==
    IF Boolean(body.val) THEN [url |-> body.url, urls |-> body.urls]
    ELSE [url |-> Undefined, urls |-> Undefined]

(***************************************************************************)
(* api/index.js                                                            *)
(***************************************************************************)
\* the catch block of the parseBody revision, which adds details: error.message
caught_details ==
    Outcome(500,
            Json({"error", "details"}, Undefined, Undefined,
                 Msg("An internal server error occurred."), <<>>, NoMeta),
            TRUE)

\* the catch block
caught ==
    Outcome(500,
            Json({"error"}, Undefined, Undefined,
                 Msg("An internal server error occurred."), <<>>, NoMeta),
            TRUE)

\* batch mode with the elements that have no identifier left out of the results
batchMode_filtered(urls) ==
    LET ids == [i \in 1..Len(urls.elems) |-> extractGoogleDriveId(urls.elems[i])]
        all == [i \in 1..Len(urls.elems) |->
                  Item({"url", "googleDriveID"}, Undefined, urls.elems[i],
                       ids[i].value, Undefined, Undefined)]
        results == SelectSeq(all, LAMBDA r : r.googleDriveID # Null)
    IN  IF \E i \in 1..Len(urls.elems) : ids[i].kind = "throw" THEN caught
        ELSE Outcome(200,
                     Json({"results"}, Undefined, Undefined, Undefined, results, NoMeta),
                     FALSE)

\* batch mode: urls.map((u) => ({ url: u, googleDriveID: extractGoogleDriveId(u) }))
\* and res.status(200).json({ results }); a throw inside map reaches the catch block
batchMode(urls) ==
    LET ids == [i \in 1..Len(urls.elems) |-> extractGoogleDriveId(urls.elems[i])]
        results == [i \in 1..Len(urls.elems) |->
                      Item({"url", "googleDriveID"}, Undefined, urls.elems[i],
                           ids[i].value, Undefined, Undefined)]
    IN  IF \E i \in 1..Len(urls.elems) : ids[i].kind = "throw" THEN caught
        ELSE Outcome(200,
                     Json({"results"}, Undefined, Undefined, Undefined, results, NoMeta),
                     FALSE)

\* the 404 of single mode
notFound ==
    Outcome(404,
            Json({"error"}, Undefined, Undefined,
                 Msg("Could not find a valid Google Drive ID in the provided URL or text."),
                 <<>>, NoMeta),
            FALSE)

\* single mode that tests googleDriveID !== undefined instead of its truthiness
singleMode_defined(url) ==
    LET googleDriveID == extractGoogleDriveId(url)
    IN  IF googleDriveID.kind = "throw" THEN caught
        ELSE IF googleDriveID.value.type # "undefined"
        THEN Outcome(200,
                     Json({"googleDriveID"}, googleDriveID.value, Undefined, Undefined,
                          <<>>, NoMeta),
                     FALSE)
        ELSE notFound

\* single mode: 200 with the identifier if (googleDriveID), else 404
singleMode(url) ==
    LET googleDriveID == extractGoogleDriveId(url)
    IN  IF googleDriveID.kind = "throw" THEN caught
        ELSE IF Boolean(googleDriveID.value)
        THEN Outcome(200,
                     Json({"googleDriveID"}, googleDriveID.value, Undefined, Undefined,
                          <<>>, NoMeta),
                     FALSE)
        ELSE notFound

\* the 400 of a body with neither a urls array nor a url string
validationError ==
    Outcome(400,
            Json({"error"}, Undefined, Undefined,
                 Msg("Invalid request body. Expecting { \"url\": \"...\" } or { \"urls\": [\"...\", ...] }"),
                 <<>>, NoMeta),
            FALSE)

\* respond with the two tests in the other order and url tested for truthiness
respond_urlFirst(body) ==
    LET url == destructure(body).url
        urls == destructure(body).urls
    IN  IF Boolean(url) /\ typeof(url) = "string" THEN singleMode(url)
        ELSE IF Array_isArray(urls) THEN batchMode(urls)
        ELSE validationError

\* the statements after the body is decoded: batch mode, single mode, validation
respond(body) ==
    LET url == destructure(body).url
        urls == destructure(body).urls
    IN  IF Array_isArray(urls) THEN batchMode(urls)
        ELSE IF typeof(url) = "string" THEN singleMode(url)
        ELSE validationError

(***************************************************************************)
(* The items/meta revision of the handler                                  *)
(***************************************************************************)
\* the catch block
caught_items ==
    Outcome(500,
            Json({"success", "error"}, Undefined, Bool(FALSE),
                 Msg("An internal server error occurred."), <<>>, NoMeta),
            TRUE)

\* item that sets success to googleDriveID !== undefined
item_defined(input, index, googleDriveID) ==
    Item({"index", "input", "googleDriveID", "success", "error"},
         Num(index), input, googleDriveID,
         Bool(googleDriveID.type # "undefined"),
         IF Boolean(googleDriveID) THEN Null
         ELSE Msg("No valid Google Drive ID found in this input."))

\* the object the map callback returns for one element
item(input, index, googleDriveID) ==
    Item({"index", "input", "googleDriveID", "success", "error"},
         Num(index), input, googleDriveID,
         Bool(Boolean(googleDriveID)),
         IF Boolean(googleDriveID) THEN Null
         ELSE Msg("No valid Google Drive ID found in this input."))

\* i => i.googleDriveID !== undefined
IsSuccess_defined(i) == i.googleDriveID.type # "undefined"

\* i => i.success
IsSuccess(i) == Boolean(i.success)

\* i => !i.success
IsFailure(i) == ~Boolean(i.success)

\* batch mode: the items, the counts and res.status(200).json({ items, meta })
batchMode_items(urls) ==
    LET ids == [i \in 1..Len(urls.elems) |-> extractGoogleDriveId(urls.elems[i])]
        items == [i \in 1..Len(urls.elems) |-> item(urls.elems[i], i - 1, ids[i].value)]
        meta == Meta(Len(items), Len(SelectSeq(items, IsSuccess)),
                    Len(SelectSeq(items, IsFailure)))
    IN  IF \E i \in 1..Len(urls.elems) : ids[i].kind = "throw" THEN caught_items
        ELSE Outcome(200,
                     Json({"items", "meta"}, Undefined, Undefined, Undefined, items, meta),
                     FALSE)

\* single mode: 200 with the identifier if (googleDriveID), else 404
singleMode_items(url) ==
    LET googleDriveID == extractGoogleDriveId(url)
    IN  IF googleDriveID.kind = "throw" THEN caught_items
        ELSE IF Boolean(googleDriveID.value)
        THEN Outcome(200,
                     Json({"googleDriveID", "success", "error"},
                          googleDriveID.value, Bool(TRUE), Null, <<>>, NoMeta),
                     FALSE)
        ELSE Outcome(404,
                     Json({"googleDriveID", "success", "error"}, Null, Bool(FALSE),
                          Msg("Could not find a valid Google Drive ID in the provided URL or text."),
                          <<>>, NoMeta),
                     FALSE)

\* the 400 of a body with neither a urls array nor a url string
validationError_items ==
    Outcome(400,
            Json({"success", "error"}, Undefined, Bool(FALSE),
                 Msg("Invalid request. Expected { \"url\": \"...\" } or { \"urls\": [...] }."),
                 <<>>, NoMeta),
            FALSE)

\* the statements after the body is decoded: batch mode, single mode, validation
respond_items(body) ==
    LET url == destructure(body).url
        urls == destructure(body).urls
    IN  IF Array_isArray(urls) THEN batchMode_items(urls)
        ELSE IF typeof(url) = "string" THEN singleMode_items(url)
        ELSE validationError_items

(***************************************************************************)
(* One request at a time through a handler                                 *)
(***************************************************************************)
VARIABLES
    rev,      \* the handler serving the request: "index" (api/index.js) or "items"
    req,      \* the request: method, req.body and the raw body stream
    pc,       \* "idle", "reading" (suspended in for await) or "sent"
    raw,      \* let raw = ""
    unread,   \* the chunks of the stream not yet delivered to the handler
    body,     \* let body: the completion of decoding it, Pending before
    res,      \* the response: status, headers, body, number of times it was sent
    log       \* the number of console.error calls

hvars == <<rev, req, pc, raw, unread, body, res, log>>

Request(method, b, stream) == [method |-> method, body |-> b, stream |-> stream]

Stream(chunks, fails) == [chunks |-> chunks, fails |-> fails]

NoStream == Stream(<<>>, FALSE)

Response(status, headers, b, sends) ==
    [status |-> status, headers |-> headers, body |-> b, sends |-> sends]

NoResponse == Response(0, {}, EmptyBody, 0)

\* a handler that sets Access-Control-Allow-Origin only
CorsHeaders_originOnly == { <<"Access-Control-Allow-Origin", "*">> }

\* the three res.setHeader calls the handler starts with
CorsHeaders ==
    { <<"Access-Control-Allow-Origin", "*">>,
      <<"Access-Control-Allow-Methods", "POST, OPTIONS">>,
      <<"Access-Control-Allow-Headers", "Content-Type">> }

MaxBatch == 3

RECURSIVE SeqsUpTo(_, _)
\* the sequences of at most n elements of S
SeqsUpTo(S, n) ==
    IF n = 0 THEN { <<>> }
    ELSE LET prev == SeqsUpTo(S, n - 1)
         IN  prev \cup { Append(q, x) : q \in prev, x \in S }

\* elements of a urls array
Elems == { Str(U_doc), Str(U_open), Str(U_short), Num(42), Null }

\* values of the urls property that are not arrays
NonArrays == { Undefined, Null, Str(U_doc), Obj, Num(42) }

\* values of the urls property that are arrays
Arrays == { Arr(e) : e \in SeqsUpTo(Elems, MaxBatch) }

\* values of the url property
UrlVals ==
    { Undefined, Null, Num(42), Arr(<<Str(U_doc)>>), Str(<<>>), Str(U_doc),
      Str(U_folder), Str(U_short), Str(U_none) }

\* req.body as the host hands it over already decoded
ParsedBodies ==
    { Body(Obj, u, us) : u \in UrlVals, us \in NonArrays }
        \cup { Body(Obj, u, us) : u \in { Undefined, Str(U_folder), Num(42) }, us \in Arrays }
        \cup { Body(v, Undefined, Undefined) :
                 v \in { Num(42), Bool(TRUE), Arr(<<Str(U_doc)>>) } }

\* JSON texts, well-formed and not
Texts ==
    { <<>>, <<" ", " ">>, <<"{", "}">>, <<" ", "{", " ", "}", " ">>,
      <<"null">>, <<"42">>, <<"false">>, <<"\"not a url\"">>, <<"[", "\"U_doc\"", "]">>,
      <<"{", "\"url\"", ":", "\"U_open\"", "}">>,
      <<"{", "\"url\"", ":", "\"\"", "}">>,
      <<"{", "\"url\"", ":", "42", "}">>,
      <<"{", "\"urls\"", ":", "[", "]", "}">>,
      <<"{", "\"urls\"", ":", "[", "\"U_open\"", ",", "\"not a url\"", ",", "42", "]", "}">>,
      <<"{", "\"url\"", ":", "\"U_doc\"", ",", "\"urls\"", ":", "[", "\"U_short\"", "]", "}">>,
      <<"{", "\"urls\"", ":", "\"U_doc\"", "}">>,
      <<"{", "\"url\"", ":">>, <<"{", "\"urls\"", ":", "[", "\"U_doc\"", ",", "]", "}">>,
      <<"{", "}", "}">>, <<"url", "=", "\"U_doc\"">> }

\* req.body as a string
StringBodies == { Body(Str(t), Undefined, Undefined) : t \in Texts }

\* falsy req.body values other than the empty string
FalsyBodies == { Body(v, Undefined, Undefined) : v \in { Undefined, Null, Num(0) } }

\* the ways a text arrives: in one chunk or split in two, ending or failing
Streams ==
    { Stream(c, f) :
        c \in UNION { IF t = <<>> THEN { <<>> }
                      ELSE { <<t>> } \cup { <<SubSeq(t, 1, k), SubSeq(t, k + 1, Len(t))>> :
                                             k \in 1..(Len(t) - 1) } : t \in Texts },
        f \in BOOLEAN }

Requests ==
    { Request("POST", b, NoStream) : b \in ParsedBodies \cup StringBodies }
        \cup { Request("POST", b, s) : b \in FalsyBodies, s \in Streams }
        \cup { Request(m, b, s) :
                 m \in { "OPTIONS", "GET", "PUT" },
                 b \in { EmptyObject, Body(Obj, Str(U_doc), Undefined),
                         Body(Str(<<"{", "\"url\"", ":">>), Undefined, Undefined),
                         Body(Undefined, Undefined, Undefined) },
                 s \in { NoStream, Stream(<<<<"{", "\"url\"", ":">>>>, FALSE) } }

HInit ==
    /\ rev = "index"
    /\ req = Request("NONE", EmptyObject, NoStream)
    /\ pc = "idle"
    /\ raw = <<>>
    /\ unread = <<>>
    /\ body = Pending
    /\ res = NoResponse
    /\ log = 0

\* the statements after the body is decoded, of the handler that serves the request
Respond(rv, b) == IF rv = "index" THEN respond(b) ELSE respond_items(b)

Caught(rv) == IF rv = "index" THEN caught ELSE caught_items

\* a completed decoding leads to the catch block or to the response
Finish(rv, decoded) ==
    IF decoded.kind = "throw" THEN Caught(rv) ELSE Respond(rv, decoded.value)

\* res.status(..).json(..) after the body was decoded (or failed to)
Send(rv, decoded) ==
    /\ body' = decoded
    /\ \E o \in { Finish(rv, decoded) } :
         /\ res' = Response(o.status, CorsHeaders, o.body, res.sends + 1)
         /\ log' = IF o.logged THEN log + 1 ELSE log
    /\ pc' = "sent"

\* the 405 body of each handler
NotAllowed(rv, method) ==
    IF rv = "index"
    THEN Json({"error"}, Undefined, Undefined,
              Msg("Method " \o method \o " Not Allowed. Use POST."), <<>>, NoMeta)
    ELSE Json({"success", "error"}, Undefined, Bool(FALSE),
              Msg("Method " \o method \o " Not Allowed. Use POST."), <<>>, NoMeta)

\* a handler that decodes a string body before it looks at the method
Invoke_bodyFirst(rv, r) ==
    /\ rev' = rv
    /\ req' = r
    /\ raw' = <<>>
    /\ unread' = r.stream.chunks
    /\ IF typeof(r.body.val) = "string"
       THEN Send(rv, parseText(r.body.val.str))
       ELSE IF r.method = "OPTIONS"
       THEN /\ res' = Response(200, CorsHeaders, EmptyBody, 1)
            /\ pc' = "sent"
            /\ UNCHANGED <<body, log>>
       ELSE IF r.method # "POST"
       THEN /\ res' = Response(405, CorsHeaders \cup {<<"Allow", "POST">>},
                               NotAllowed(rv, r.method), 1)
            /\ pc' = "sent"
            /\ UNCHANGED <<body, log>>
       ELSE IF ~Boolean(r.body.val)
       THEN /\ res' = Response(0, CorsHeaders, EmptyBody, 0)
            /\ pc' = "reading"
            /\ UNCHANGED <<body, log>>
       ELSE Send(rv, Return(r.body))

\* a handler invoked with request r, up to its response or its first await
Invoke(rv, r) ==
    /\ rev' = rv
    /\ req' = r
    /\ raw' = <<>>
    /\ unread' = r.stream.chunks
    /\ IF r.method = "OPTIONS"
       THEN /\ res' = Response(200, CorsHeaders, EmptyBody, 1)
            /\ pc' = "sent"
            /\ UNCHANGED <<body, log>>
       ELSE IF r.method # "POST"
       THEN /\ res' = Response(405, CorsHeaders \cup {<<"Allow", "POST">>},
                               NotAllowed(rv, r.method), 1)
            /\ pc' = "sent"
            /\ UNCHANGED <<body, log>>
       ELSE IF typeof(r.body.val) = "string"
       THEN Send(rv, parseText(r.body.val.str))
       ELSE IF ~Boolean(r.body.val)
       THEN /\ res' = Response(0, CorsHeaders, EmptyBody, 0)
            /\ pc' = "reading"
            /\ UNCHANGED <<body, log>>
       ELSE Send(rv, Return(r.body))

\* export default async function handler(req, res) of api/index.js
handler == pc = "idle" /\ \E r \in Requests : Invoke("index", r)

\* export default async function handler(req, res) of the items/meta revision
handler_items == pc = "idle" /\ \E r \in Requests : Invoke("items", r)

\* for await (const chunk of req) raw += chunk: one chunk delivered
readChunk ==
    /\ pc = "reading"
    /\ unread # <<>>
    /\ raw' = raw \o Head(unread)
    /\ unread' = Tail(unread)
    /\ UNCHANGED <<rev, req, pc, body, res, log>>

\* a loop that exits before the stream has ended
readEnd_early ==
    /\ pc = "reading"
    /\ ~req.stream.fails
    /\ Send(rev, parseText(raw))
    /\ UNCHANGED <<rev, req, raw, unread>>

\* the stream ends: the loop exits, the text is decoded and the response sent
readEnd ==
    /\ pc = "reading"
    /\ unread = <<>>
    /\ ~req.stream.fails
    /\ Send(rev, parseText(raw))
    /\ UNCHANGED <<rev, req, raw, unread>>

\* a loop outside any try block: the failure of the stream rejects the
\* handler's promise and nothing is sent
readError_unhandled ==
    /\ pc = "reading"
    /\ req.stream.fails
    /\ pc' = "rejected"
    /\ UNCHANGED <<rev, req, raw, unread, body, res, log>>

\* the stream fails, after any number of its chunks: the loop throws into the
\* catch block
readError ==
    /\ pc = "reading"
    /\ req.stream.fails
    /\ Send(rev, Throw)
    /\ UNCHANGED <<rev, req, raw, unread>>

(***************************************************************************)
(* Several invocations of the handler of api/index.js in one process.      *)
(* What an invocation holds in its own variables (req, res, body, raw) is  *)
(* a field of its record; what the module holds, the RegExp object         *)
(* GID_REGEX with its lastIndex property, is shared.                       *)
(***************************************************************************)
VARIABLES
    invs,       \* the invocations: request, position, raw, unread chunks, response
    lastIndex,  \* GID_REGEX.lastIndex
    calls       \* the calls of extractGoogleDriveId so far: <<input, result>>

cvars == <<invs, lastIndex, calls>>

MaxInvocations == 2

Invocations == 1..MaxInvocations

\* a GID_REGEX with the sticky flag
GID_REGEX_sticky == {"y"}

\* the flags of the literal GID_REGEX: none
GID_REGEX_flags == {}

\* RegExpBuiltinExec of GID_REGEX on s, as input.match reaches it for a regex
\* that is not global: a sticky regex attempts the match at lastIndex only,
\* stores the end of the match there and resets it when the match fails; a
\* regex with neither flag scans from the start and leaves lastIndex alone
RegExp_exec(s, li) ==
    IF "y" \in GID_REGEX_flags
    THEN LET span == IF li > Len(s) THEN <<>> ELSE TryAlt(s, li + 1, 1)
         IN  IF span = <<>> THEN [match |-> <<>>, lastIndex |-> 0]
             ELSE [match |-> span, lastIndex |-> span[2]]
    ELSE [match |-> Scan(s, 1), lastIndex |-> li]

\* extractGoogleDriveId(input) on the shared regex: its value and the
\* lastIndex it leaves
extractGoogleDriveId_shared(input, li) ==
    IF typeof(input) # "string" THEN [value |-> Null, lastIndex |-> li]
    ELSE LET m == RegExp_exec(input.str, li)
         IN  [value |-> IF m.match # <<>>
                        THEN Str(SubSeq(input.str, m.match[1], m.match[2]))
                        ELSE Null,
              lastIndex |-> m.lastIndex]

RECURSIVE map_shared(_, _)
\* urls.map on the shared regex, element by element: the values and the
\* lastIndex left after the last one
map_shared(elems, li) ==
    IF elems = <<>> THEN [ids |-> <<>>, lastIndex |-> li]
    ELSE LET first == extractGoogleDriveId_shared(Head(elems), li)
             rest == map_shared(Tail(elems), first.lastIndex)
         IN  [ids |-> <<first.value>> \o rest.ids, lastIndex |-> rest.lastIndex]

\* the statements after the body is decoded, on the shared regex: what is
\* sent, the lastIndex left and the extraction calls made
respond_shared(b, li) ==
    LET url == destructure(b).url
        urls == destructure(b).urls
    IN  IF Array_isArray(urls)
        THEN LET run == map_shared(urls.elems, li)
             IN  [out |-> Outcome(200,
                                  Json({"results"}, Undefined, Undefined, Undefined,
                                       [k \in 1..Len(urls.elems) |->
                                          Item({"url", "googleDriveID"}, Undefined,
                                               urls.elems[k], run.ids[k],
                                               Undefined, Undefined)],
                                       NoMeta),
                                  FALSE),
                  lastIndex |-> run.lastIndex,
                  calls |-> { <<urls.elems[k], run.ids[k]>> : k \in 1..Len(urls.elems) }]
        ELSE IF typeof(url) = "string"
        THEN LET e == extractGoogleDriveId_shared(url, li)
             IN  [out |-> IF Boolean(e.value)
                          THEN Outcome(200,
                                       Json({"googleDriveID"}, e.value, Undefined,
                                            Undefined, <<>>, NoMeta),
                                       FALSE)
                          ELSE notFound,
                  lastIndex |-> e.lastIndex,
                  calls |-> { <<url, e.value>> }]
        ELSE [out |-> validationError, lastIndex |-> li, calls |-> {}]

\* a completed decoding leads to the catch block or to the response
finish_shared(decoded, li) ==
    IF decoded.kind = "throw" THEN [out |-> caught, lastIndex |-> li, calls |-> {}]
    ELSE respond_shared(decoded.value, li)

Invocation(r, p, rw, un, rs) ==
    [req |-> r, pc |-> p, raw |-> rw, unread |-> un, res |-> rs]

NotInvoked == Invocation(Request("NONE", EmptyObject, NoStream), "idle", <<>>, <<>>, NoResponse)

\* id=ABCDEFGHIJ1234567890XYZ: a text that starts with a marker
U_id == SubSeq(U_open, 7, Len(U_open))

\* the requests the invocations are given
SharedRequests ==
    { Request("OPTIONS", EmptyObject, NoStream),
      Request("GET", EmptyObject, NoStream),
      Request("POST", Body(Obj, Str(U_folder), Undefined), NoStream),
      Request("POST", Body(Str(<<"{", "\"url\"", ":", "\"U_open\"", "}">>), Undefined, Undefined),
              NoStream),
      Request("POST", Body(Obj, Undefined, Arr(<<Str(U_id), Str(U_folder), Str(U_id)>>)),
              NoStream),
      Request("POST", Body(Undefined, Undefined, Undefined),
              Stream(<< <<"{", "\"url\"", ":">>, <<"\"U_open\"", "}">> >>, FALSE)),
      Request("POST", Body(Undefined, Undefined, Undefined),
              Stream(<< <<"{", "\"urls\"", ":", "[", "\"U_open\"", ",">>,
                        <<"\"not a url\"", ",", "42", "]", "}">> >>, FALSE)),
      Request("POST", Body(Undefined, Undefined, Undefined),
              Stream(<< <<"{", "\"url\"", ":">> >>, FALSE)),
      Request("POST", Body(Undefined, Undefined, Undefined),
              Stream(<< <<"{", "\"url\"", ":">>, <<"\"U_open\"", "}">> >>, TRUE)) }

CInit ==
    /\ invs = [i \in Invocations |-> NotInvoked]
    /\ lastIndex = 0
    /\ calls = {}

\* invocation i sends its response after its body was decoded (or failed to)
send(i, r, rw, un, decoded) ==
    \E f \in { finish_shared(decoded, lastIndex) } :
        /\ invs' = [invs EXCEPT ![i] =
                       Invocation(r, "sent", rw, un,
                                  Response(f.out.status, CorsHeaders, f.out.body,
                                           invs[i].res.sends + 1))]
        /\ lastIndex' = f.lastIndex
        /\ calls' = calls \cup f.calls

\* invocation i of the handler with request r, up to its response or its
\* first await
invoke(i, r) ==
    IF r.method = "OPTIONS"
    THEN /\ invs' = [invs EXCEPT ![i] =
                        Invocation(r, "sent", <<>>, r.stream.chunks,
                                   Response(200, CorsHeaders, EmptyBody, 1))]
         /\ UNCHANGED <<lastIndex, calls>>
    ELSE IF r.method # "POST"
    THEN /\ invs' = [invs EXCEPT ![i] =
                        Invocation(r, "sent", <<>>, r.stream.chunks,
                                   Response(405, CorsHeaders \cup {<<"Allow", "POST">>},
                                            NotAllowed("index", r.method), 1))]
         /\ UNCHANGED <<lastIndex, calls>>
    ELSE IF typeof(r.body.val) = "string"
    THEN send(i, r, <<>>, r.stream.chunks, parseText(r.body.val.str))
    ELSE IF ~Boolean(r.body.val)
    THEN /\ invs' = [invs EXCEPT ![i] =
                        Invocation(r, "reading", <<>>, r.stream.chunks,
                                   Response(0, CorsHeaders, EmptyBody, 0))]
         /\ UNCHANGED <<lastIndex, calls>>
    ELSE send(i, r, <<>>, r.stream.chunks, Return(r.body))

\* the handler of api/index.js invoked while others may be suspended
handler_shared ==
    \E i \in Invocations :
        /\ invs[i].pc = "idle"
        /\ \E r \in SharedRequests : invoke(i, r)

\* for await (const chunk of req) raw += chunk: one chunk delivered to one of
\* the suspended invocations
readChunk_shared ==
    \E i \in Invocations :
        /\ invs[i].pc = "reading"
        /\ invs[i].unread # <<>>
        /\ invs' = [invs EXCEPT ![i].raw = @ \o Head(invs[i].unread),
                                ![i].unread = Tail(@)]
        /\ UNCHANGED <<lastIndex, calls>>

\* the stream of a suspended invocation ends: it decodes and responds
readEnd_shared ==
    \E i \in Invocations :
        /\ invs[i].pc = "reading"
        /\ invs[i].unread = <<>>
        /\ ~invs[i].req.stream.fails
        /\ send(i, invs[i].req, invs[i].raw, invs[i].unread, parseText(invs[i].raw))

\* the stream of a suspended invocation fails: its catch block responds
readError_shared ==
    \E i \in Invocations :
        /\ invs[i].pc = "reading"
        /\ invs[i].req.stream.fails
        /\ send(i, invs[i].req, invs[i].raw, invs[i].unread, Throw)

(***************************************************************************)
(* The extraction rule applied to one value                                *)
(***************************************************************************)
VARIABLES ex_input, ex_result

ex_vars == <<ex_input, ex_result>>

MaxPieces == 4

\* fragments the input strings are assembled from: the three markers, runs of
\* class characters of 9, 1 and 10 characters, and a character outside the class
Pieces == { Markers[1], Markers[2], Markers[3],
            <<"a", "B", "c", "D", "_", "e", "X", "-", "y">>,
            <<"Z">>,
            <<"2", "b", "C", "d", "E", "1", "2", "3", "4", "5">>,
            <<" ">> }

RECURSIVE Concats(_)
\* the concatenations of at most n pieces
Concats(n) ==
    IF n = 0 THEN { <<>> }
    ELSE LET prev == Concats(n - 1)
         IN  prev \cup { p \o q : p \in prev, q \in Pieces }

\* the values that are not strings
NonStrings == { Undefined, Null, Num(42), Num(0), Bool(TRUE), Bool(FALSE), Obj,
                Arr(<<>>), Arr(<<Str(Markers[3] \o <<"2", "b", "C", "d", "E", "1", "2", "3", "4", "5">>)>>) }

ExInputs == { Str(s) : s \in Concats(MaxPieces) } \cup NonStrings

ExInit ==
    /\ ex_input \in ExInputs
    /\ ex_result = Pending
    /\ HInit
    /\ CInit

\* one call extractGoogleDriveId(ex_input)
Extract ==
    /\ ex_result = Pending
    /\ ex_result' = extractGoogleDriveId(ex_input)
    /\ UNCHANGED <<ex_input, hvars, cvars>>

ExNext == Extract

vars == <<hvars, ex_vars, cvars>>

SpecExtract == ExInit /\ [][ExNext]_vars

(***************************************************************************)
(* The handlers                                                            *)
(***************************************************************************)
Init ==
    /\ HInit
    /\ CInit
    /\ ex_input = Undefined
    /\ ex_result = Pending

Next ==
    \/ handler /\ UNCHANGED <<ex_vars, cvars>>
    \/ handler_items /\ UNCHANGED <<ex_vars, cvars>>
    \/ readChunk /\ UNCHANGED <<ex_vars, cvars>>
    \/ readEnd /\ UNCHANGED <<ex_vars, cvars>>
    \/ readError /\ UNCHANGED <<ex_vars, cvars>>

Spec == Init /\ [][Next]_vars

\* the next step of an invocation suspended in for await, as the position and
\* the stream show it: a chunk is delivered (readChunk), or the loop is left
\* and the response sent (readEnd, readError)
Resume ==
    /\ pc = "reading"
    /\ \/ unread # <<>> /\ unread' = Tail(unread) /\ pc' = pc
       \/ pc' = "sent" /\ unread' = unread

\* a stream always delivers its next chunk, its end or its failure, and the
\* event loop then resumes the invocation awaiting it
SpecLive == Init /\ [][Next]_vars /\ WF_<<pc, unread>>(Resume)

(***************************************************************************)
(* Interleaved invocations                                                 *)
(***************************************************************************)
NextShared ==
    \/ handler_shared /\ UNCHANGED <<hvars, ex_vars>>
    \/ readChunk_shared /\ UNCHANGED <<hvars, ex_vars>>
    \/ readEnd_shared /\ UNCHANGED <<hvars, ex_vars>>
    \/ readError_shared /\ UNCHANGED <<hvars, ex_vars>>

SpecShared == Init /\ [][NextShared]_vars

(***************************************************************************)
(* Properties of the extraction rule (checked under SpecExtract)           *)
(***************************************************************************)
\* one of the three markers occurs in s at position i
MarkerAt(s, i) == \E k \in 1..Len(Markers) : LitAt(s, i, Markers[k])

\* the position right after the marker that occurs at position i
AfterMarker(s, i) ==
    i + Len(Markers[CHOOSE k \in 1..Len(Markers) : LitAt(s, i, Markers[k])])

\* the length of the longest run of class characters of s that starts at j
RunOf(s, j) ==
    CHOOSE n \in 0..Len(s) :
        /\ \A m \in 0..(n - 1) : j + m <= Len(s) /\ s[j + m] \in IdChar
        /\ j + n > Len(s) \/ s[j + n] \notin IdChar

\* the positions of the markers that at least 10 class characters follow
Qualifying(s) ==
    { i \in 1..Len(s) : MarkerAt(s, i) /\ RunOf(s, AfterMarker(s, i)) >= 10 }

\* the call was made on a string and returned
ExtractedFromString == ex_result.kind = "return" /\ ex_input.type = "string"

\* C1: a non-null result X is a verbatim substring of the input, made of class
\* characters only, at least 10 long, right after a marker, and followed by the
\* end of the input or by a character outside the class
C1_ResultIsMarkedGreedyRun ==
    (ExtractedFromString /\ ex_result.value # Null) =>
        LET s == ex_input.str
            X == ex_result.value.str
        IN  /\ ex_result.value.type = "string"
            /\ Len(X) >= 10
            /\ \A n \in 1..Len(X) : X[n] \in IdChar
            /\ \E i \in 1..Len(s) :
                 /\ MarkerAt(s, i)
                 /\ LET j == AfterMarker(s, i)
                    IN  /\ j + Len(X) - 1 <= Len(s)
                        /\ \A n \in 1..Len(X) : s[j + n - 1] = X[n]
                        /\ j + Len(X) > Len(s) \/ s[j + Len(X)] \notin IdChar

\* C1 witness: an identifier with upper and lower case, "_" and "-", extracted
\* from a string that goes on with a space after it
C1_Witness ==
    /\ ExtractedFromString
    /\ ex_input.str = Markers[3]
                        \o <<"a", "B", "c", "D", "_", "e", "X", "-", "y", "Z", " ">>
    /\ ex_result.value = Str(<<"a", "B", "c", "D", "_", "e", "X", "-", "y", "Z">>)

\* C2: on a string the result is null exactly when no marker is followed by 10
\* class characters; when the only marker that qualifies is followed by exactly
\* 10, the result is those 10 characters
C2_NullIffNoMarkedRun ==
    ExtractedFromString =>
        LET s == ex_input.str
        IN  /\ (ex_result.value = Null) <=>
                 ~ \E i \in 1..Len(s) :
                      /\ MarkerAt(s, i)
                      /\ \A n \in 0..9 :
                           /\ AfterMarker(s, i) + n <= Len(s)
                           /\ s[AfterMarker(s, i) + n] \in IdChar
            /\ \A i \in 1..Len(s) :
                 (Qualifying(s) = {i} /\ RunOf(s, AfterMarker(s, i)) = 10) =>
                     ex_result.value =
                         Str(SubSeq(s, AfterMarker(s, i), AfterMarker(s, i) + 9))

\* C2 witness: a marker followed by a run of 9 class characters gives null
C2_Witness ==
    /\ ExtractedFromString
    /\ ex_input.str = Markers[2] \o <<"a", "B", "c", "D", "_", "e", "X", "-", "y">>
    /\ ex_result.value = Null

\* C3 as stated: a non-null result is the run after the leftmost marker of the
\* input
C3_FirstMarkerWins ==
    (ExtractedFromString /\ ex_result.value # Null) =>
        LET s == ex_input.str
            first == CHOOSE i \in 1..Len(s) :
                        MarkerAt(s, i) /\ \A h \in 1..(i - 1) : ~MarkerAt(s, h)
            j == AfterMarker(s, first)
        IN  ex_result.value = Str(SubSeq(s, j, j + RunOf(s, j) - 1))

\* C3 amended: a non-null result is the run after the leftmost marker that at
\* least 10 class characters follow; markers with a shorter run are passed over
\* and no later marker is used
C3_LeftmostMatchWins ==
    (ExtractedFromString /\ ex_result.value # Null) =>
        LET s == ex_input.str
            first == CHOOSE i \in Qualifying(s) : \A h \in Qualifying(s) : i <= h
            j == AfterMarker(s, first)
        IN  /\ Qualifying(s) # {}
            /\ ex_result.value = Str(SubSeq(s, j, j + RunOf(s, j) - 1))

\* C3 witness: two markers qualify, their runs differ, and the result is the
\* run of the left one
C3_Witness ==
    /\ ExtractedFromString
    /\ \E i, h \in Qualifying(ex_input.str) :
         /\ i < h
         /\ ex_result.value =
              Str(SubSeq(ex_input.str, AfterMarker(ex_input.str, i),
                         AfterMarker(ex_input.str, i)
                           + RunOf(ex_input.str, AfterMarker(ex_input.str, i)) - 1))
         /\ ex_result.value #
              Str(SubSeq(ex_input.str, AfterMarker(ex_input.str, h),
                         AfterMarker(ex_input.str, h)
                           + RunOf(ex_input.str, AfterMarker(ex_input.str, h)) - 1))

\* C4: on a value that is not a string the call returns null and does not throw
C4_NonStringIsNull ==
    (ex_result.kind # "pending" /\ ex_input.type # "string") =>
        ex_result = Return(Null)

\* C4 witness: the number 42 was given and null came back
C4_Witness == ex_input = Num(42) /\ ex_result = Return(Null)

(***************************************************************************)
(* Properties of the handlers (checked under Spec)                         *)
(***************************************************************************)
\* a POST request whose body was decoded has been answered
Answered == pc = "sent" /\ req.method = "POST" /\ body.kind = "return"

\* the decoded body selects batch mode, single mode
UrlsIsArray == body.value.urls.type = "array"
UrlIsString == body.value.url.type = "string"

\* a response body that carries a result list
IsBatchBody(b) == b.props \cap {"results", "items"} # {}

\* the number of elements of e the extraction rule gives an identifier for
Found(e) ==
    Cardinality({ i \in 1..Len(e) : extractGoogleDriveId(e[i]).value # Null })

\* C5: urls an array gives batch mode whatever url is; otherwise url a string,
\* the empty one included, gives single mode (200 or 404); otherwise 400
C5_ModeResolution ==
    Answered =>
        IF UrlsIsArray
        THEN /\ res.status = 200
             /\ IsBatchBody(res.body)
             /\ "googleDriveID" \notin res.body.props
             /\ Len(res.body.list) = Len(body.value.urls.elems)
        ELSE IF UrlIsString
        THEN /\ res.status \in {200, 404}
             /\ ~IsBatchBody(res.body)
             /\ res.status = 200 => "googleDriveID" \in res.body.props
        ELSE /\ res.status = 400
             /\ ~IsBatchBody(res.body)
             /\ "googleDriveID" \notin res.body.props

\* C5 witness: a body with a urls array and a url string answered in batch mode
C5_Witness ==
    /\ Answered
    /\ UrlsIsArray /\ body.value.urls.elems = <<Str(U_short)>>
    /\ UrlIsString /\ body.value.url = Str(U_folder)
    /\ IsBatchBody(res.body)

\* C6: in single mode the status is 200 exactly when the extraction rule gives
\* an identifier for url, the body then carries that identifier, and it is 404
\* exactly when the rule gives null
C6_SingleAgreesWithExtraction ==
    (Answered /\ ~UrlsIsArray /\ UrlIsString) =>
        LET x == extractGoogleDriveId(body.value.url)
        IN  /\ x.kind = "return"
            /\ res.status = 200 <=> x.value # Null
            /\ res.status = 404 <=> x.value = Null
            /\ res.status = 200 =>
                 /\ "googleDriveID" \in res.body.props
                 /\ res.body.googleDriveID = x.value

\* C6 witness: the folder URL with the 10-character identifier answered 200
C6_Witness ==
    /\ Answered /\ ~UrlsIsArray
    /\ body.value.url = Str(U_folder)
    /\ res.status = 200
    /\ res.body.googleDriveID = Str(<<"2", "b", "C", "d", "E", "1", "2", "3", "4", "5">>)

\* C7: the result list of a batch has one entry per element of urls, in the
\* order of urls, each with the element itself and the extraction rule's result
C7_BatchPreservesOrderAndLength ==
    (Answered /\ UrlsIsArray) =>
        LET e == body.value.urls.elems
            l == res.body.list
        IN  /\ Len(l) = Len(e)
            /\ \A i \in 1..Len(e) :
                 /\ l[i].input = e[i]
                 /\ l[i].googleDriveID = extractGoogleDriveId(e[i]).value

\* C7 witness: three different elements, the first with an identifier
C7_Witness ==
    /\ Answered /\ UrlsIsArray
    /\ rev = "index"
    /\ body.value.urls.elems = <<Str(U_open), Str(U_short), Num(42)>>
    /\ Len(res.body.list) = 3
    /\ res.body.list[1].googleDriveID # Null
    /\ res.body.list[3].input = Num(42)

\* the counts of a batch response are those of its urls array
CountsOf(e) ==
    /\ "meta" \in res.body.props
    /\ res.body.meta.total = Len(e)
    /\ res.body.meta.succeeded = Found(e)
    /\ res.body.meta.failed = Len(e) - Found(e)
    /\ res.body.meta.total = res.body.meta.succeeded + res.body.meta.failed

C9_BatchIs200 == (Answered /\ UrlsIsArray) => res.status = 200

\* C9 witness: a batch in which no element has an identifier, answered 200
C9_Witness ==
    /\ Answered /\ UrlsIsArray
    /\ body.value.urls.elems = <<Str(U_short), Num(42), Null>>
    /\ res.status = 200

\* the result objects of the response: the batch items, or the single-mode body
ResultObjects ==
    IF IsBatchBody(res.body)
    THEN { res.body.list[i] : i \in 1..Len(res.body.list) }
    ELSE IF res.status \in {200, 404} THEN { res.body } ELSE {}

HasIdentifier(o) == o.googleDriveID.type = "string" /\ Len(o.googleDriveID.str) > 0
HasError(o) == o.error.type \notin {"undefined", "null"}

\* success is true iff the identifier is there; the error is there iff success
\* is false
FlagsAgree(o) ==
    /\ o.success = Bool(TRUE) <=> HasIdentifier(o)
    /\ HasError(o) <=> o.success = Bool(FALSE)

Malformed == <<"{", "\"url\"", ":">>

\* the request was answered at the method gate: nothing was read from the
\* stream, nothing was decoded and nothing was logged
Untouched == body = Pending /\ raw = <<>> /\ unread = req.stream.chunks /\ log = 0

\* C11: the method gate runs before any body handling: OPTIONS is answered 200
\* with an empty body whatever the body is, any method other than POST and
\* OPTIONS is answered 405 with Allow: POST, in neither case is the body read
\* or decoded, and only POST requests are answered 400, 404 or 500
C11_MethodGateFirst ==
    /\ pc = "reading" => req.method = "POST"
    /\ pc = "sent" =>
          /\ req.method = "OPTIONS" =>
                res.status = 200 /\ res.body = EmptyBody /\ res.sends = 1 /\ Untouched
          /\ req.method \notin {"POST", "OPTIONS"} =>
                /\ res.status = 405
                /\ <<"Allow", "POST">> \in res.headers
                /\ res.body = NotAllowed(rev, req.method)
                /\ res.sends = 1
                /\ Untouched
          /\ res.status \in {400, 404, 500} => req.method = "POST"

\* C11 witness: an OPTIONS request with a malformed string body answered 200
C11_Witness ==
    /\ pc = "sent"
    /\ req.method = "OPTIONS"
    /\ req.body.val = Str(Malformed)
    /\ req.stream.chunks # <<>>
    /\ res.status = 200
    /\ res.body = EmptyBody

\* a text that trim() leaves empty
Blank(t) == String_trim(t) = <<>>

\* req.body makes the handler read the raw stream
Absent(v) == typeof(v) # "string" /\ ~Boolean(v)

\* the 400 body of the handler that serves the request
ShapeError == IF rev = "index" THEN validationError.body ELSE validationError_items.body

\* C12: a POST whose body is an empty or whitespace-only string, or is absent
\* with an empty or whitespace-only stream, is decoded as {} and answered 400,
\* never 500; and every body decoded to a value with neither a urls array nor
\* a url string is answered 400
C12_ShapeErrorIs400 ==
    (pc = "sent" /\ req.method = "POST") =>
        /\ (typeof(req.body.val) = "string" /\ Blank(req.body.val.str)) =>
              body = Return(EmptyObject) /\ res.status = 400
        /\ (Absent(req.body.val) /\ ~req.stream.fails /\ Blank(raw)) =>
              body = Return(EmptyObject) /\ res.status = 400
        /\ (body.kind = "return" /\ ~UrlsIsArray /\ ~UrlIsString) =>
              res.status = 400 /\ res.body = ShapeError /\ log = 0

\* C12 witness: an absent req.body with a whitespace-only stream of two chunks
\* answered 400
C12_Witness ==
    /\ pc = "sent"
    /\ req.method = "POST"
    /\ req.body.val = Undefined
    /\ req.stream = Stream(<<<<" ">>, <<" ">>>>, FALSE)
    /\ raw = <<" ", " ">>
    /\ body = Return(EmptyObject)
    /\ res.status = 400

\* the 500 body of the handler that serves the request: one fixed message
GenericError ==
    IF rev = "index"
    THEN Json({"error"}, Undefined, Undefined,
              Msg("An internal server error occurred."), <<>>, NoMeta)
    ELSE Json({"success", "error"}, Undefined, Bool(FALSE),
              Msg("An internal server error occurred."), <<>>, NoMeta)

\* C13: whenever reading or decoding the POST body fails the response is 500
\* and its body is the fixed generic message, the same for every request and
\* every failure; the error goes to console.error, once, and nothing is logged
\* on any other path
C13_FailureIsGeneric500 ==
    /\ (pc = "sent" /\ body.kind = "throw") =>
          /\ req.method = "POST"
          /\ res.status = 500
          /\ res.body = GenericError
          /\ log = 1
    /\ (pc = "sent" /\ body.kind # "throw") => res.status # 500 /\ log = 0
    /\ pc # "sent" => log = 0

\* C13 witness: a stream that fails after delivering malformed text, answered
\* 500 by the items/meta handler
C13_Witness ==
    /\ pc = "sent"
    /\ rev = "items"
    /\ req.method = "POST"
    /\ req.stream.fails
    /\ raw = Malformed
    /\ body = Throw
    /\ res.status = 500
    /\ log = 1

\* C14: every response, on every path, carries Access-Control-Allow-Origin: *,
\* Access-Control-Allow-Methods: POST, OPTIONS and
\* Access-Control-Allow-Headers: Content-Type, with a status among 200, 400,
\* 404, 405 and 500; the headers are already set while the handler is still
\* reading the stream and has sent nothing
C14_CorsOnEveryResponse ==
    /\ pc # "idle" =>
          /\ <<"Access-Control-Allow-Origin", "*">> \in res.headers
          /\ <<"Access-Control-Allow-Methods", "POST, OPTIONS">> \in res.headers
          /\ <<"Access-Control-Allow-Headers", "Content-Type">> \in res.headers
    /\ res.sends > 0 <=> pc = "sent"
    /\ pc = "sent" => res.status \in {200, 400, 404, 405, 500}
    /\ pc = "sent" => (<<"Allow", "POST">> \in res.headers <=> res.status = 405)

\* C14 witness: a 500 sent from the catch block after a read of the stream,
\* carrying exactly the three headers
C14_Witness ==
    /\ pc = "sent"
    /\ res.status = 500
    /\ raw # <<>>
    /\ Cardinality(res.headers) = 3
    /\ \A h \in res.headers :
         h[1] \in { "Access-Control-Allow-Origin", "Access-Control-Allow-Methods",
                    "Access-Control-Allow-Headers" }

RECURSIVE Flat(_)
\* the text a sequence of chunks carries
Flat(chunks) == IF chunks = <<>> THEN <<>> ELSE Head(chunks) \o Flat(Tail(chunks))

\* the handler reads the stream of this request
ReadsStream == req.method = "POST" /\ Absent(req.body.val)

\* C15 as stated: every answered request has had its body stream consumed in
\* full by the handler
C15_EveryStreamConsumed ==
    pc = "sent" => unread = <<>> /\ raw = Flat(req.stream.chunks)

\* C15: the handler reads the stream only for a POST whose req.body is neither
\* a string nor truthy; what it has collected and what is left are always the
\* stream's text in order (no chunk twice, none skipped); a decoded body, and
\* with it mode resolution and extraction, comes only after the whole stream
\* was read to its end; a stream that fails is left where it failed and the
\* answer is 500; every other request is answered with the stream unread
C15_StreamReadOnceBeforeDecoding ==
    /\ pc # "idle" => raw \o Flat(unread) = Flat(req.stream.chunks)
    /\ pc = "reading" => ReadsStream /\ body = Pending /\ res.sends = 0
    /\ (pc = "sent" /\ ReadsStream /\ body.kind = "return") =>
          /\ unread = <<>>
          /\ ~req.stream.fails
          /\ body = parseText(Flat(req.stream.chunks))
    /\ (pc = "sent" /\ ReadsStream /\ body.kind = "throw") =>
          /\ req.stream.fails \/ unread = <<>>
          /\ res.status = 500
    /\ (pc = "sent" /\ ReadsStream) => body # Pending
    /\ (pc = "sent" /\ ~ReadsStream) => raw = <<>> /\ unread = req.stream.chunks

\* C15 witness: a body that arrived in two chunks, read to its end, decoded
\* and answered in single mode
C15_Witness ==
    /\ pc = "sent"
    /\ ReadsStream
    /\ Len(req.stream.chunks) = 2
    /\ unread = <<>>
    /\ raw = <<"{", "\"url\"", ":", "\"U_open\"", "}">>
    /\ body.kind = "return"
    /\ res.status = 200

\* the response the handler of api/index.js gives request r when it is the
\* only request of the process
Alone(r) ==
    IF r.method = "OPTIONS" THEN Response(200, CorsHeaders, EmptyBody, 1)
    ELSE IF r.method # "POST"
    THEN Response(405, CorsHeaders \cup {<<"Allow", "POST">>},
                  NotAllowed("index", r.method), 1)
    ELSE LET decoded == IF typeof(r.body.val) = "string" THEN parseText(r.body.val.str)
                        ELSE IF ~Absent(r.body.val) THEN Return(r.body)
                        ELSE IF r.stream.fails THEN Throw
                        ELSE parseText(Flat(r.stream.chunks))
             o == Finish("index", decoded)
         IN  Response(o.status, CorsHeaders, o.body, 1)

\* one request through the handler is answered as Alone says
AloneIsHandledAlone == (pc = "sent" /\ rev = "index") => res = Alone(req)

\* C16: invocations that interleave at their awaits share no mutable state:
\* each response is the one the request gets when handled alone, each
\* invocation collects the chunks of its own stream only, every call of the
\* extraction rule returns what the rule gives for its input, the same on
\* every call, and GID_REGEX.lastIndex is never moved
C16_NoSharedMutableState ==
    /\ \A i \in Invocations :
         /\ invs[i].pc = "sent" => invs[i].res = Alone(invs[i].req)
         /\ invs[i].raw \o Flat(invs[i].unread) = Flat(invs[i].req.stream.chunks)
    /\ \A c \in calls : c[2] = extractGoogleDriveId(c[1]).value
    /\ \A c, d \in calls : c[1] = d[1] => c[2] = d[2]
    /\ lastIndex = 0

\* C16 witness: an invocation answered a batch, which extracted twice from
\* the same input, while another is suspended in the middle of its stream
C16_Witness ==
    \E i, j \in Invocations :
        /\ invs[i].pc = "reading"
        /\ invs[i].raw # <<>>
        /\ invs[i].unread # <<>>
        /\ invs[j].pc = "sent"
        /\ invs[j].res.status = 200
        /\ Len(invs[j].res.body.list) = 3
        /\ invs[j].res.body.list[1].googleDriveID = invs[j].res.body.list[3].googleDriveID
        /\ invs[j].res.body.list[1].googleDriveID # Null
        /\ calls # {}

\* C17: an invocation that is suspended on its stream eventually responds,
\* since the stream ends or fails; an invocation has sent nothing until it has
\* responded and then has sent exactly one response, with a status among 200,
\* 400, 404, 405 and 500; after the response nothing of the invocation changes
\* any more: no second response, no catch block, no retry; and the only steps
\* of a suspended invocation are the delivery of a chunk and the response
C17_ExactlyOneResponse ==
    /\ [](pc = "reading" => <>(pc = "sent"))
    /\ [](pc \in {"idle", "reading", "sent"})
    /\ [](pc # "sent" => res.sends = 0 /\ res.status = 0)
    /\ [](pc = "sent" => res.sends = 1 /\ res.status \in {200, 400, 404, 405, 500})
    /\ [][pc = "sent" => UNCHANGED hvars]_vars
    /\ [][pc = "reading" => Resume]_<<pc, unread>>

\* C17 witness: a stream that failed after its first chunk, answered once,
\* with 500
C17_Witness ==
    /\ pc = "sent"
    /\ ReadsStream
    /\ req.stream.fails
    /\ raw # <<>>
    /\ unread # <<>>
    /\ res.status = 500
    /\ res.sends = 1
    /\ log = 1

====
